---- MODULE Spec2Model ----
(***************************************************************************)
(* State-machine model of the HTTP/1.x request parser of                   *)
(* src/src/h2tp/message.rs (Message / Request).                            *)
(*                                                                         *)
(* Bytes are their ASCII codes.  The byte source (TcpStream) delivers the  *)
(* bytes of `stream` in order; every read may return any non-empty prefix  *)
(* of what is still to come (up to the length of the slice it is offered), *)
(* zero bytes (orderly close) or a transport error.  A connection either   *)
(* delivers one byte per read, or cuts the stream at up to MaxSplits       *)
(* places of its choice and otherwise fills every read.                    *)
(*                                                                         *)
(* Option<T> is modelled as a sequence of length <= 1: None is <<>> and    *)
(* Some(x) is <<x>>.                                                       *)
(***************************************************************************)
EXTENDS Integers, Sequences, FiniteSets, TLC

\* ------------------------------------------------------------------------
\* Bytes the parser compares against
\* ------------------------------------------------------------------------
CR == 13
LF == 10
SP == 32
COLON == 58
PLUS == 43
MINUS == 45

\* Scratch-buffer capacity (crate::h2tp::cfg::MESSAGE_BUFFER_SIZE), scaled down.
MESSAGE_BUFFER_SIZE == 34

\* Number of from() calls the caller makes on one connection.
MaxCalls == 2

\* Number of reads on one connection that return fewer bytes than are both
\* asked for and still to come (packet boundaries inside the stream), unless
\* the connection delivers one byte per read throughout.
MaxSplits == 2

\* Content of a scratch-buffer cell that no read has written yet
\* (BytesMut::with_capacity + unsafe set_len).
Uninit == 256

\* Values an uninitialised cell may turn out to hold when it is read.
UninitValues == {0, CR, LF}

None == <<>>
Some(x) == <<x>>
IsSome(o) == o # <<>>
Unwrap(o) == o[1]

Min(a, b) == IF a < b THEN a ELSE b

\* ------------------------------------------------------------------------
\* String helpers of the standard library, computed as the library does
\* ------------------------------------------------------------------------
\* char::is_whitespace restricted to ASCII (what str::trim strips)
IsWhitespace(c) == c \in {9, 10, 11, 12, 13, 32}

RECURSIVE TrimStart(_)
TrimStart(s) ==
    IF s # <<>> /\ IsWhitespace(Head(s)) THEN TrimStart(Tail(s)) ELSE s

RECURSIVE TrimEnd(_)
TrimEnd(s) ==
    IF s # <<>> /\ IsWhitespace(s[Len(s)])
    THEN TrimEnd(SubSeq(s, 1, Len(s) - 1))
    ELSE s

\* str::trim
Trim(s) == TrimEnd(TrimStart(s))

\* u8::to_ascii_lowercase / str::to_ascii_lowercase
LowerByte(c) == IF c \in 65..90 THEN c + 32 ELSE c
ToAsciiLowercase(s) == [i \in 1..Len(s) |-> LowerByte(s[i])]

IsDigit(c) == c \in 48..57

RECURSIVE DecValue(_)
DecValue(s) ==
    IF s = <<>> THEN 0
    ELSE 10 * DecValue(SubSeq(s, 1, Len(s) - 1)) + (s[Len(s)] - 48)

\* str::parse::<i32>(): optional sign, at least one decimal digit, no other
\* character, value inside the i32 range.  Some(v) or None for Err.
\* (Literals of more than nine digits are reported as out of range; the
\* model never builds a digit string that long.)
ParseI32(s) ==
    LET signed == s # <<>> /\ s[1] \in {PLUS, MINUS}
        neg    == s # <<>> /\ s[1] = MINUS
        digs   == IF signed THEN Tail(s) ELSE s
    IN  IF digs = <<>> \/ (\E i \in 1..Len(digs) : ~IsDigit(digs[i])) \/ Len(digs) > 9
        THEN None
        ELSE Some(IF neg THEN 0 - DecValue(digs) ELSE DecValue(digs))

\* ------------------------------------------------------------------------
\* Header Store (crate::h2tp::headers::Headers), from its contract: an
\* ordered multimap from the lowercase, trimmed name to the trimmed values.
\* It is kept as the sequence of the appends it has received, in order;
\* the store's normalisation is applied where an entry is read out, so that
\* what Message::from passed to append stays visible.
\* ------------------------------------------------------------------------
\* "content-length"
CONTENT_LENGTH == <<99, 111, 110, 116, 101, 110, 116, 45, 108, 101, 110, 103, 116, 104>>
\* "transfer-encoding"
TRANSFER_ENCODING ==
    <<116, 114, 97, 110, 115, 102, 101, 114, 45, 101, 110, 99, 111, 100, 105, 110, 103>>
\* "chunked"
CHUNKED == <<99, 104, 117, 110, 107, 101, 100>>

HeadersNew == <<>>

HeadersAppend(h, name, value) == Append(h, <<name, value>>)

\* the entry the store holds for an append it received
HeadersEntry(p) == <<ToAsciiLowercase(Trim(p[1])), Trim(p[2])>>

HeadersClear(h) == <<>>

\* the values stored under `name`, in insertion order
HeadersGet(h, name) ==
    LET hits == SelectSeq(h, LAMBDA p : HeadersEntry(p)[1] = name)
    IN  [i \in 1..Len(hits) |-> HeadersEntry(hits[i])[2]]

\* Option<usize>: the first content-length value, when it is a decimal
\* non-negative integer
HeadersContentLength(h) ==
    LET vs == HeadersGet(h, CONTENT_LENGTH)
    IN  IF vs = <<>> THEN None
        ELSE LET v == vs[1]
             IN  IF v = <<>> \/ (\E i \in 1..Len(v) : ~IsDigit(v[i])) \/ Len(v) > 9
                 THEN None
                 ELSE Some(DecValue(v))

Contains(s, t) ==
    \E i \in 1..(Len(s) - Len(t) + 1) : SubSeq(s, i, i + Len(t) - 1) = t

HeadersIsChunked(h) ==
    LET vs == HeadersGet(h, TRANSFER_ENCODING)
    IN  \E i \in 1..Len(vs) : Contains(ToAsciiLowercase(vs[i]), CHUNKED)

\* ------------------------------------------------------------------------
\* The startline / header scan of Message::from: the `for c in bytesslice`
\* loop over the unconsumed window.  `s` holds the fields and locals the
\* loop touches; `err` is the error the loop returns with ("none" when the
\* loop ends or breaks).
\* ------------------------------------------------------------------------
\* HeaderName without the lowercasing
HeaderNameNotLowered(k) == Trim(k)

\* the name and the value from() passes to Headers::append
HeaderName(k) == ToAsciiLowercase(Trim(k))
HeaderValue(v) == Trim(v)

RECURSIVE ScanHead(_, _)
ScanHead(s, win) ==
    IF win = <<>> THEN s
    ELSE
      LET c  == Head(win)
          s1 == [s EXCEPT !.bufremains = @ - 1]
      IN
      IF s1.skip_newline THEN
          IF c # LF THEN [s1 EXCEPT !.err = "bad"]
          ELSE IF s1.status = "HeadersOK"
               THEN [s1 EXCEPT !.skip_newline = FALSE]               \* break
               ELSE ScanHead([s1 EXCEPT !.skip_newline = FALSE], Tail(win))
      ELSE
      CASE s1.status = "Empty" ->
             IF c = SP
             THEN ScanHead([s1 EXCEPT !.status = "Startline1"], Tail(win))
             ELSE ScanHead([s1 EXCEPT !.startline[1] = Append(@, c)], Tail(win))
        [] s1.status = "Startline1" ->
             IF c = SP
             THEN ScanHead([s1 EXCEPT !.status = "Startline2"], Tail(win))
             ELSE ScanHead([s1 EXCEPT !.startline[2] = Append(@, c)], Tail(win))
        [] s1.status = "Startline2" ->
             IF c = CR
             THEN ScanHead([s1 EXCEPT !.status = "Startline3",
                                      !.skip_newline = TRUE], Tail(win))
             ELSE ScanHead([s1 EXCEPT !.startline[3] = Append(@, c)], Tail(win))
        [] s1.status = "Startline3" ->
             IF c = CR THEN
                 IF s1.hkvsep THEN
                     ScanHead([s1 EXCEPT
                                 !.skip_newline = TRUE,
                                 !.headers = Some(HeadersAppend(
                                     IF IsSome(@) THEN Unwrap(@) ELSE HeadersNew,
                                     HeaderName(s1.hkey),
                                     HeaderValue(s1.hval))),
                                 !.hkey = <<>>,
                                 !.hval = <<>>,
                                 !.hkvsep = FALSE], Tail(win))
                 ELSE IF s1.hkey # <<>> \/ s1.hval # <<>>
                      THEN [s1 EXCEPT !.skip_newline = TRUE, !.err = "bad"]
                      ELSE ScanHead([s1 EXCEPT !.skip_newline = TRUE,
                                               !.status = "HeadersOK"], Tail(win))
             ELSE IF s1.hkvsep
                  THEN ScanHead([s1 EXCEPT !.hval = Append(@, c)], Tail(win))
                  ELSE IF c = COLON
                       THEN ScanHead([s1 EXCEPT !.hkvsep = TRUE], Tail(win))
                       ELSE ScanHead([s1 EXCEPT !.hkey = Append(@, c)], Tail(win))
        [] OTHER -> [s1 EXCEPT !.err = "panic"]                     \* unreachable!()

\* ------------------------------------------------------------------------
\* The chunk-size scan of Message::read_chunked_body: the `for c in
\* bytesslice` loop of the None arm.
\* ------------------------------------------------------------------------
RECURSIVE ScanChunkSize(_, _)
ScanChunkSize(s, win) ==
    IF win = <<>> THEN s
    ELSE
      LET c  == Head(win)
          s1 == [s EXCEPT !.bufremains = @ - 1]
      IN
      IF s1.skip_newline THEN
          IF c # LF THEN [s1 EXCEPT !.err = "bad"]
          ELSE [s1 EXCEPT !.skip_newline = FALSE]                    \* break
      ELSE IF c = CR THEN
          LET v == ParseI32(s1.numbuf)
          IN  IF ~IsSome(v) THEN [s1 EXCEPT !.err = "bad"]
              ELSE IF Unwrap(v) < 0 THEN [s1 EXCEPT !.err = "bad"]
              ELSE ScanChunkSize([s1 EXCEPT !.current_chunk_size = Some(Unwrap(v))],
                                 Tail(win))                          \* continue
      ELSE ScanChunkSize([s1 EXCEPT !.numbuf = Append(@, c)], Tail(win))

\* ------------------------------------------------------------------------
\* Connections: the byte streams a peer sends.  A request descriptor gives
\* the wire form of one well-formed request together with what a correct
\* parse of it yields.
\* ------------------------------------------------------------------------
CRLF == <<CR, LF>>

RECURSIVE WireLines(_)
WireLines(ls) ==
    IF ls = <<>> THEN <<>>
    ELSE Head(ls).name \o <<COLON>> \o Head(ls).value \o CRLF \o WireLines(Tail(ls))

WireHead(r) ==
    r.method \o <<SP>> \o r.target \o <<SP>> \o r.version \o CRLF
      \o WireLines(r.lines) \o CRLF

Wire(r) == WireHead(r) \o r.bodywire

RECURSIVE WireAll(_)
WireAll(rs) == IF rs = <<>> THEN <<>> ELSE Wire(Head(rs)) \o WireAll(Tail(rs))

\* header lines: raw name and value as sent, and the pair a parse appends
HostLine == [name |-> <<72, 111, 115, 116>>, value |-> <<SP, 104>>,          \* "Host: h"
             key |-> <<104, 111, 115, 116>>, val |-> <<104>>]
XLineA   == [name |-> <<88>>, value |-> <<SP, 97>>,                           \* "X: a"
             key |-> <<120>>, val |-> <<97>>]
XLineB   == [name |-> <<88>>, value |-> <<98, SP>>,                           \* "X:b "
             key |-> <<120>>, val |-> <<98>>]
XEmpty   == [name |-> <<88>>, value |-> <<>>,                                \* "X:"
             key |-> <<120>>, val |-> <<>>]
YColon   == [name |-> <<89>>, value |-> <<SP, 97, COLON, 98>>,                \* "Y: a:b"
             key |-> <<121>>, val |-> <<97, COLON, 98>>]
ClLine(d) == [name |-> <<67, 111, 110, 116, 101, 110, 116, 45,                \* "Content-Length: d"
                         76, 101, 110, 103, 116, 104>>,
              value |-> <<SP, d>>,
              key |-> CONTENT_LENGTH, val |-> <<d>>]
TeLine   == [name |-> <<84, 114, 97, 110, 115, 102, 101, 114, 45,             \* "Transfer-Encoding: chunked"
                        69, 110, 99, 111, 100, 105, 110, 103>>,
             value |-> <<SP>> \o CHUNKED,
             key |-> TRANSFER_ENCODING, val |-> CHUNKED]

Req(m, t, v, ls, framing, bw, b) ==
    [method |-> m, target |-> t, version |-> v, lines |-> ls,
     framing |-> framing, bodywire |-> bw, body |-> b]

\* "GE /x H1" + Host header, no body
ReqHost   == Req(<<71, 69>>, <<47, 120>>, <<72, 49>>, <<HostLine>>, "none", <<>>, <<>>)
\* "G / H" + X: a, X:b , no body
ReqDup    == Req(<<71>>, <<47>>, <<72>>, <<XLineA, XLineB>>, "none", <<>>, <<>>)
\* "G / H" + X:, Y: a:b, no body
ReqOdd    == Req(<<71>>, <<47>>, <<72>>, <<XEmpty, YColon>>, "none", <<>>, <<>>)
\* "G / H", no header, no body
ReqBare   == Req(<<71>>, <<47>>, <<72>>, <<>>, "none", <<>>, <<>>)
\* "P /y H", no header, no body
ReqBare2  == Req(<<80>>, <<47, 121>>, <<72>>, <<>>, "none", <<>>, <<>>)
\* "P / H" + Content-Length: 3, body "abc"
ReqSized  == Req(<<80>>, <<47>>, <<72>>, <<ClLine(51)>>, "sized",
                 <<97, 98, 99>>, <<97, 98, 99>>)
\* "P / H" + Transfer-Encoding: chunked, body "1 CRLF a CRLF 0 CRLF CRLF"
ReqChunk  == Req(<<80>>, <<47>>, <<72>>, <<TeLine>>, "chunked",
                 <<49>> \o CRLF \o <<97>> \o CRLF \o <<48>> \o CRLF \o CRLF, <<97>>)
\* the same with the terminating block only: "0 CRLF CRLF"
ReqChunk0 == Req(<<80>>, <<47>>, <<72>>, <<TeLine>>, "chunked",
                 <<48>> \o CRLF \o CRLF, <<>>)
\* "P / H" + Content-Length: 0, no body
ReqZero   == Req(<<80>>, <<47>>, <<72>>, <<ClLine(48)>>, "sized", <<>>, <<>>)
\* "P / H" + Content-Length: 1 + Transfer-Encoding: chunked, body "a"
ReqBoth   == Req(<<80>>, <<47>>, <<72>>, <<ClLine(49), TeLine>>, "sized",
                 <<97>>, <<97>>)

\* a chunked request whose first chunk-size line is `line`
ReqBadChunk(line) == Req(<<80>>, <<47>>, <<72>>, <<TeLine>>, "badchunk",
                         line \o CRLF \o CRLF, <<>>)

\* a chunked request up to the end of its first chunk-size line `line`
ReqHexChunk(line) == Req(<<80>>, <<47>>, <<72>>, <<TeLine>>, "hexchunk",
                         line \o CRLF, <<>>)

\* "G / H CR X CR LF CR LF": the startline's CR is not followed by LF
RawStartlineCrX == <<71, SP, 47, SP, 72, CR, 88, CR, LF, CR, LF>>
\* "G / H CR LF CR X": the blank line's CR is not followed by LF
RawBlankCrX == <<71, SP, 47, SP, 72, CR, LF, CR, 88>>

\* "G / H CR LF a b CR LF CR LF": a header line without a colon
RawNoColon == <<71, SP, 47, SP, 72, CR, LF, 97, 98, CR, LF, CR, LF>>
\* "G / H CR LF : v CR LF CR LF": a header line with an empty name
RawNoName == <<71, SP, 47, SP, 72, CR, LF, COLON, 118, CR, LF, CR, LF>>

\* A connection: the well-formed requests sent, in order, then raw bytes.
Conn(rs, raw, tag) == [reqs |-> rs, stream |-> WireAll(rs) \o raw, tag |-> tag]

Scenarios == <<
    Conn(<<ReqHost>>, <<>>, "ok"),
    Conn(<<ReqDup>>, <<>>, "ok"),
    Conn(<<ReqOdd>>, <<>>, "ok"),
    Conn(<<ReqSized>>, <<>>, "ok"),
    Conn(<<ReqChunk>>, <<>>, "ok"),
    Conn(<<ReqChunk0>>, <<>>, "ok"),
    Conn(<<ReqBare, ReqBare2>>, <<>>, "ok"),
    Conn(<<ReqSized, ReqBare2>>, <<>>, "ok"),
    Conn(<<ReqBadChunk(<<MINUS, 48>>)>>, <<>>, "ok"),          \* "-0"
    Conn(<<ReqBadChunk(<<MINUS, 49>>)>>, <<>>, "ok"),          \* "-1"
    Conn(<<ReqBadChunk(<<103>>)>>, <<>>, "ok"),                \* "g"
    Conn(<<ReqBadChunk(<<>>)>>, <<>>, "ok"),                   \* ""
    Conn(<<>>, RawStartlineCrX, "crx"),
    Conn(<<>>, RawBlankCrX, "crx"),
    Conn(<<>>, RawNoColon, "half"),
    Conn(<<>>, RawNoName, "half"),
    Conn(<<ReqZero>>, <<>>, "ok"),
    Conn(<<ReqBoth>>, <<>>, "ok"),
    Conn(<<ReqHexChunk(<<49, 48>>)>>, <<>>, "ok")               \* "10"
>>

\* ------------------------------------------------------------------------
\* State
\* ------------------------------------------------------------------------
VARIABLES
    sc,                  \* the connection (index into Scenarios)
    mode,                \* "trickle": one byte per read; "burst": cut at will
    splits,              \* reads so far that were cut short by the connection
    pos,                 \* bytes of the stream the source has delivered
    closed,              \* the source has returned zero bytes or an error
    startline,           \* Message.startline
    headers,             \* Message.headers : Option<Headers>
    body,                \* Message.body : Option<BytesMut>
    buf,                 \* Message.buf : Option<BytesMut>, the scratch buffer
    bufsize,             \* Message.bufsize
    bufremains,          \* Message.bufremains
    status,              \* from(): status
    skip_newline,        \* from(): skip_newline
    hkey,                \* from(): hkey
    hval,                \* from(): hval
    hkvsep,              \* from(): hkvsep
    current_chunk_size,  \* read_chunked_body(): current_chunk_size
    numbuf,              \* read_chunked_body(): numbuf
    chunk_skip_newline,  \* read_chunked_body(): skip_newline
    cl,                  \* read_sized_body(): parameter cl
    remain,              \* read_sized_body(): remain
    caller,              \* read_sized_body(): who called it
    pc,                  \* where the running from() stands; "idle" between calls
    result,              \* what the last from() returned
    calls,               \* from() calls made so far
    lastRead,            \* outcome of the last source read of this from()
    callPos,             \* stream offset of the first byte this from() is to see
    prep,                \* the Request is "new", "cleared" or "used"
    entry,               \* prep when this from() was entered
    prev,                \* what the from() before this one returned
    allocs,              \* scratch buffers allocated so far
    access               \* what the last step read: scratch-buffer cells, source

srcVars   == <<sc, mode, splits, pos, closed>>
msgVars   == <<startline, headers, body, buf, bufsize, bufremains>>
fromVars  == <<status, skip_newline, hkey, hval, hkvsep>>
chunkVars == <<current_chunk_size, numbuf, chunk_skip_newline>>
sizedVars == <<cl, remain, caller>>
ctlVars   == <<pc, result, calls, lastRead, callPos, prep, entry, prev, allocs,
               access>>
vars == <<srcVars, msgVars, fromVars, chunkVars, sizedVars, ctlVars>>

Stream == Scenarios[sc].stream

\* ------------------------------------------------------------------------
\* The byte source
\* ------------------------------------------------------------------------
Avail == IF closed THEN 0 ELSE Len(Stream) - pos

\* what a read offered n bytes may return
Outcomes(n) ==
    LET full == Min(n, Avail)
        ks   == IF mode = "trickle" THEN 1..Min(1, full)
                ELSE IF splits < MaxSplits THEN 1..full
                ELSE IF full > 0 THEN {full} ELSE {}
    IN  {[kind |-> "data", k |-> k] : k \in ks}
          \cup {[kind |-> "zero", k |-> 0], [kind |-> "err", k |-> 0]}

\* the bytes a read returning k bytes delivers
Delivered(k) == SubSeq(Stream, pos + 1, pos + k)

\* the scratch buffer after a read of k bytes into its front
Filled(b, k) == [i \in 1..Len(b) |-> IF i <= k THEN Stream[pos + i] ELSE b[i]]

\* a read offered n bytes returns o
Source(o, n) ==
    /\ pos' = pos + o.k
    /\ closed' = (closed \/ o.kind # "data")
    /\ splits' = IF mode = "burst" /\ o.kind = "data" /\ o.k < Min(n, Avail)
                 THEN splits + 1 ELSE splits
    /\ lastRead' = o.kind
    /\ UNCHANGED <<sc, mode>>

NoSource == UNCHANGED <<srcVars, lastRead>>

\* WindowBegin computed after the decrement of bufremains, as read_byte does
WindowBeginAfterDecrement(size, rem) == size - (rem - 1)

\* the unconsumed window buffer[bufsize - bufremains .. bufsize)
WindowBegin(size, rem) == size - rem
Window(b, size, rem) == SubSeq(b, WindowBegin(size, rem) + 1, size)

\* The record of what a step read.  A step that read the n cells
\* b[first .. first + n) of the scratch buffer, with valid length `size` and
\* `rem` unconsumed bytes before the first of them, the first unconsumed byte
\* being byte `at` of the stream; `offer` is the length of the slice the step
\* offered to the source (0 when it made no read).
Access(b, first, n, size, rem, at, offer) ==
    [idx   |-> [i \in 1..n |-> first + i - 1],
     bytes |-> [i \in 1..n |-> IF first + i <= Len(b) THEN b[first + i] ELSE Uninit],
     size  |-> size, rem |-> rem, at |-> at, offer |-> offer]

\* a step that only read the source, offering a slice of `offer` bytes
SourceOnly(offer) == Access(<<>>, 0, 0, 0, 0, 0, offer)
NoAccess == SourceOnly(0)

Init ==
    /\ sc \in 1..Len(Scenarios)
    /\ mode \in {"trickle", "burst"}
    /\ splits = 0
    /\ pos = 0
    /\ closed = FALSE
    /\ startline = <<<<>>, <<>>, <<>>>>
    /\ headers = None
    /\ body = None
    /\ buf = None
    /\ bufsize = 0
    /\ bufremains = 0
    /\ status = "Empty"
    /\ skip_newline = FALSE
    /\ hkey = <<>>
    /\ hval = <<>>
    /\ hkvsep = FALSE
    /\ current_chunk_size = None
    /\ numbuf = <<>>
    /\ chunk_skip_newline = FALSE
    /\ cl = 0
    /\ remain = 0
    /\ caller = "none"
    /\ pc = "idle"
    /\ result = "none"
    /\ calls = 0
    /\ lastRead = "none"
    /\ callPos = 0
    /\ prep = "new"
    /\ entry = "new"
    /\ prev = "none"
    /\ allocs = 0
    /\ access = NoAccess

\* ------------------------------------------------------------------------
\* Request::from / Message::from
\* ------------------------------------------------------------------------
\* Message::read's error for a read that delivered nothing
ReadError(kind) == IF kind = "zero" THEN "closed" ELSE "ioe"

\* from() is entered: the scratch buffer is allocated on first use and the
\* locals are initialised
CallFrom ==
    /\ pc = "idle"
    /\ result # "panic"
    /\ calls < MaxCalls
    /\ buf' = IF IsSome(buf) THEN buf
              ELSE Some([i \in 1..MESSAGE_BUFFER_SIZE |-> Uninit])
    /\ allocs' = IF IsSome(buf) THEN allocs ELSE allocs + 1
    /\ status' = "Empty"
    /\ skip_newline' = FALSE
    /\ hkey' = <<>>
    /\ hval' = <<>>
    /\ hkvsep' = FALSE
    /\ pc' = "from"
    /\ result' = "none"
    /\ calls' = calls + 1
    /\ lastRead' = "none"
    /\ callPos' = pos - bufremains
    /\ prep' = "used"
    /\ entry' = prep
    /\ prev' = result
    /\ access' = NoAccess
    /\ UNCHANGED <<srcVars, startline, headers, body, bufsize, bufremains,
                   chunkVars, sizedVars>>

\* the state the scan loop of from() starts from, over buffer b
ScanStart(rem) ==
    [bufremains |-> rem, status |-> status, skip_newline |-> skip_newline,
     hkey |-> hkey, hval |-> hval, hkvsep |-> hkvsep,
     startline |-> startline, headers |-> headers, err |-> "none"]

\* what from() does once the scan loop has ended in s
FromScanned(s) ==
    /\ bufremains' = s.bufremains
    /\ status' = s.status
    /\ skip_newline' = s.skip_newline
    /\ hkey' = s.hkey
    /\ hval' = s.hval
    /\ hkvsep' = s.hkvsep
    /\ startline' = s.startline
    /\ headers' = s.headers
    /\ IF s.err # "none" THEN pc' = "idle" /\ result' = s.err
       ELSE IF s.status = "HeadersOK" THEN pc' = "body" /\ result' = result
       ELSE pc' = "from" /\ result' = result

\* FromLoop with a read() that refills the scratch buffer whether or not the
\* window is empty
FromLoopAlwaysReads ==
    /\ pc = "from"
    /\ \E o \in Outcomes(MESSAGE_BUFFER_SIZE) :
         /\ Source(o, MESSAGE_BUFFER_SIZE)
         /\ IF o.kind = "data"
            THEN LET b == Filled(Unwrap(buf), o.k)
                     s == ScanHead(ScanStart(o.k), Window(b, o.k, o.k))
                 IN  /\ buf' = Some(b)
                     /\ bufsize' = o.k
                     /\ FromScanned(s)
                     /\ access' = Access(b, WindowBegin(o.k, o.k),
                                         o.k - s.bufremains, o.k, o.k, pos,
                                         MESSAGE_BUFFER_SIZE)
            ELSE /\ pc' = "idle"
                 /\ result' = ReadError(o.kind)
                 /\ access' = SourceOnly(MESSAGE_BUFFER_SIZE)
                 /\ UNCHANGED <<buf, bufsize, bufremains, startline, headers,
                                fromVars>>
    /\ UNCHANGED <<body, chunkVars, sizedVars, calls, callPos, prep, entry, prev, allocs>>

\* one iteration of the loop of from(): self.read(), then the scan of the
\* unconsumed window
FromLoop ==
    /\ pc = "from"
    /\ \/ /\ bufremains > 0
          /\ NoSource
          /\ UNCHANGED <<buf, bufsize>>
          /\ LET s == ScanHead(ScanStart(bufremains),
                               Window(Unwrap(buf), bufsize, bufremains))
             IN  /\ FromScanned(s)
                 /\ access' = Access(Unwrap(buf), WindowBegin(bufsize, bufremains),
                                     bufremains - s.bufremains, bufsize, bufremains,
                                     pos - bufremains, 0)
       \/ /\ bufremains = 0
          /\ \E o \in Outcomes(MESSAGE_BUFFER_SIZE) :
               /\ Source(o, MESSAGE_BUFFER_SIZE)
               /\ IF o.kind = "data"
                  THEN LET b == Filled(Unwrap(buf), o.k)
                           s == ScanHead(ScanStart(o.k), Window(b, o.k, o.k))
                       IN  /\ buf' = Some(b)
                           /\ bufsize' = o.k
                           /\ FromScanned(s)
                           /\ access' = Access(b, WindowBegin(o.k, o.k),
                                               o.k - s.bufremains, o.k, o.k, pos,
                                               MESSAGE_BUFFER_SIZE)
                  ELSE /\ pc' = "idle"
                       /\ result' = ReadError(o.kind)
                       /\ access' = SourceOnly(MESSAGE_BUFFER_SIZE)
                       /\ UNCHANGED <<buf, bufsize, bufremains, startline, headers,
                                      fromVars>>
    /\ UNCHANGED <<body, chunkVars, sizedVars, calls, callPos, prep, entry, prev, allocs>>

\* ReadBody with is_chunked() tested before content_length()
ReadBodyChunkedFirst ==
    /\ pc = "body"
    /\ LET clo == IF IsSome(headers) THEN HeadersContentLength(Unwrap(headers))
                  ELSE None
           chunked == IsSome(headers) /\ HeadersIsChunked(Unwrap(headers))
       IN  IF chunked
           THEN /\ body' = IF IsSome(body) THEN body ELSE Some(<<>>)
                /\ current_chunk_size' = None
                /\ numbuf' = <<>>
                /\ chunk_skip_newline' = FALSE
                /\ pc' = "chunk_loop"
                /\ UNCHANGED <<sizedVars, result>>
           ELSE IF IsSome(clo)
           THEN /\ cl' = Unwrap(clo)
                /\ caller' = "read_body"
                /\ pc' = "sized"
                /\ UNCHANGED <<remain, body, chunkVars, result>>
           ELSE /\ pc' = "idle"
                /\ result' = "ok"
                /\ UNCHANGED <<body, chunkVars, sizedVars>>
    /\ access' = NoAccess
    /\ UNCHANGED <<srcVars, startline, headers, buf, bufsize, bufremains, fromVars,
                   calls, lastRead, callPos, prep, entry, prev, allocs>>

\* Message::read_body: the body strategy is chosen; the entry of
\* read_chunked_body (body allocation, locals) belongs to its arm
ReadBody ==
    /\ pc = "body"
    /\ LET clo == IF IsSome(headers) THEN HeadersContentLength(Unwrap(headers))
                  ELSE None
           chunked == IsSome(headers) /\ HeadersIsChunked(Unwrap(headers))
       IN  IF IsSome(clo)
           THEN /\ cl' = Unwrap(clo)
                /\ caller' = "read_body"
                /\ pc' = "sized"
                /\ UNCHANGED <<remain, body, chunkVars, result>>
           ELSE IF chunked
           THEN /\ body' = IF IsSome(body) THEN body ELSE Some(<<>>)
                /\ current_chunk_size' = None
                /\ numbuf' = <<>>
                /\ chunk_skip_newline' = FALSE
                /\ pc' = "chunk_loop"
                /\ UNCHANGED <<sizedVars, result>>
           ELSE /\ pc' = "idle"
                /\ result' = "ok"
                /\ UNCHANGED <<body, chunkVars, sizedVars>>
    /\ access' = NoAccess
    /\ UNCHANGED <<srcVars, startline, headers, buf, bufsize, bufremains, fromVars,
                   calls, lastRead, callPos, prep, entry, prev, allocs>>

\* SizedReturns with the chunked reader dropping the error of its
\* read_sized_body call and going on to the chunk terminator
SizedReturnsErrorDropped(e) ==
    IF caller = "chunk"
    THEN pc' = "chunk_cr" /\ result' = result
    ELSE pc' = "idle" /\ result' = (IF e = "none" THEN "ok" ELSE e)

\* read_sized_body returns e ("none" for None) to its caller
SizedReturns(e) ==
    IF e = "none" /\ caller = "chunk"
    THEN pc' = "chunk_cr" /\ result' = result
    ELSE pc' = "idle" /\ result' = (IF e = "none" THEN "ok" ELSE e)

\* SizedDrain without the comparison of bufremains with remain: the window
\* is always taken to hold the whole body
SizedDrainUnchecked ==
    /\ pc = "sized"
    /\ IF cl = 0
       THEN /\ SizedReturns("none")
            /\ access' = NoAccess
            /\ UNCHANGED <<body, bufremains, remain>>
       ELSE LET b0    == IF IsSome(body) THEN Unwrap(body) ELSE <<>>
                begin == bufsize - bufremains
                at    == pos - bufremains
            IN  /\ pc' = "sized_loop"
                /\ result' = result
                /\ IF bufremains > 0
                   THEN /\ body' = Some(b0 \o SubSeq(Unwrap(buf), begin + 1,
                                                     Min(begin + cl, bufsize)))
                        /\ bufremains' = bufremains - cl
                        /\ remain' = 0
                        /\ access' = Access(Unwrap(buf), begin, cl, bufsize,
                                            bufremains, at, 0)
                   ELSE /\ body' = Some(b0)
                        /\ remain' = cl
                        /\ access' = NoAccess
                        /\ UNCHANGED bufremains
    /\ UNCHANGED <<srcVars, startline, headers, buf, bufsize, fromVars, chunkVars,
                   cl, caller, calls, lastRead, callPos, prep, entry, prev, allocs>>

\* read_sized_body up to its loop: the bytes already in the window are
\* drained into the body
SizedDrain ==
    /\ pc = "sized"
    /\ IF cl = 0
       THEN /\ SizedReturns("none")
            /\ access' = NoAccess
            /\ UNCHANGED <<body, bufremains, remain>>
       ELSE LET b0    == IF IsSome(body) THEN Unwrap(body) ELSE <<>>
                begin == bufsize - bufremains
                at    == pos - bufremains
            IN  /\ pc' = "sized_loop"
                /\ result' = result
                /\ IF bufremains > 0
                   THEN IF bufremains >= cl
                        THEN /\ body' = Some(b0 \o SubSeq(Unwrap(buf), begin + 1, begin + cl))
                             /\ bufremains' = bufremains - cl
                             /\ remain' = 0
                             /\ access' = Access(Unwrap(buf), begin, cl, bufsize,
                                                 bufremains, at, 0)
                        ELSE /\ body' = Some(b0 \o SubSeq(Unwrap(buf), begin + 1, bufsize))
                             /\ bufremains' = 0
                             /\ remain' = cl - bufremains'   \* remain -= self.bufremains
                             /\ access' = Access(Unwrap(buf), begin, bufsize - begin,
                                                 bufsize, bufremains, at, 0)
                   ELSE /\ body' = Some(b0)
                        /\ remain' = cl
                        /\ access' = NoAccess
                        /\ UNCHANGED bufremains
    /\ UNCHANGED <<srcVars, startline, headers, buf, bufsize, fromVars, chunkVars,
                   cl, caller, calls, lastRead, callPos, prep, entry, prev, allocs>>

\* one iteration of the loop of read_sized_body
SizedLoop ==
    /\ pc = "sized_loop"
    /\ IF remain = 0
       THEN /\ SizedReturns("none")
            /\ NoSource
            /\ access' = NoAccess
            /\ UNCHANGED <<buf, body, remain>>
       ELSE \E o \in Outcomes(Min(remain, MESSAGE_BUFFER_SIZE)) :
               /\ Source(o, Min(remain, MESSAGE_BUFFER_SIZE))
               /\ IF o.kind = "data"
                  THEN LET b == Filled(Unwrap(buf), o.k)
                       IN  /\ buf' = Some(b)
                           /\ body' = Some(Unwrap(body) \o SubSeq(b, 1, o.k))
                           /\ remain' = remain - o.k
                           /\ access' = Access(b, 0, o.k, o.k, o.k, pos,
                                               Min(remain, MESSAGE_BUFFER_SIZE))
                           /\ UNCHANGED <<pc, result>>
                  ELSE /\ SizedReturns(ReadError(o.kind))
                       /\ access' = SourceOnly(Min(remain, MESSAGE_BUFFER_SIZE))
                       /\ UNCHANGED <<buf, body, remain>>
    /\ UNCHANGED <<startline, headers, bufsize, bufremains, fromVars, chunkVars,
                   cl, caller, calls, callPos, prep, entry, prev, allocs>>

\* ------------------------------------------------------------------------
\* Message::read_chunked_body
\* ------------------------------------------------------------------------
ChunkScanStart(rem) ==
    [bufremains |-> rem, current_chunk_size |-> current_chunk_size,
     numbuf |-> numbuf, skip_newline |-> chunk_skip_newline, err |-> "none"]

ChunkScanned(s) ==
    /\ bufremains' = s.bufremains
    /\ current_chunk_size' = s.current_chunk_size
    /\ numbuf' = s.numbuf
    /\ chunk_skip_newline' = s.skip_newline
    /\ IF s.err # "none" THEN pc' = "idle" /\ result' = s.err
       ELSE pc' = "chunk_loop" /\ result' = result

\* ChunkSizeLine with a read() that takes a failed read (zero bytes or an
\* error) for an empty one and lets the loop go on
ChunkSizeLineIgnoringFailedRead ==
    /\ pc = "chunk_loop"
    /\ ~IsSome(current_chunk_size)
    /\ \/ /\ bufremains > 0
          /\ NoSource
          /\ UNCHANGED <<buf, bufsize>>
          /\ LET s == ScanChunkSize(ChunkScanStart(bufremains),
                                    Window(Unwrap(buf), bufsize, bufremains))
             IN  /\ ChunkScanned(s)
                 /\ access' = Access(Unwrap(buf), WindowBegin(bufsize, bufremains),
                                     bufremains - s.bufremains, bufsize, bufremains,
                                     pos - bufremains, 0)
       \/ /\ bufremains = 0
          /\ \E o \in Outcomes(MESSAGE_BUFFER_SIZE) :
               /\ Source(o, MESSAGE_BUFFER_SIZE)
               /\ IF o.kind = "data"
                  THEN LET b == Filled(Unwrap(buf), o.k)
                           s == ScanChunkSize(ChunkScanStart(o.k), Window(b, o.k, o.k))
                       IN  /\ buf' = Some(b)
                           /\ bufsize' = o.k
                           /\ ChunkScanned(s)
                           /\ access' = Access(b, WindowBegin(o.k, o.k),
                                               o.k - s.bufremains, o.k, o.k, pos,
                                               MESSAGE_BUFFER_SIZE)
                  ELSE /\ bufsize' = 0
                       /\ access' = SourceOnly(MESSAGE_BUFFER_SIZE)
                       /\ UNCHANGED <<pc, result, buf, bufremains, chunkVars>>
    /\ UNCHANGED <<startline, headers, body, fromVars, sizedVars, calls, callPos, prep, entry, prev, allocs>>

\* the None arm of the loop: self.read(), then the chunk-size scan of the
\* unconsumed window
ChunkSizeLine ==
    /\ pc = "chunk_loop"
    /\ ~IsSome(current_chunk_size)
    /\ \/ /\ bufremains > 0
          /\ NoSource
          /\ UNCHANGED <<buf, bufsize>>
          /\ LET s == ScanChunkSize(ChunkScanStart(bufremains),
                                    Window(Unwrap(buf), bufsize, bufremains))
             IN  /\ ChunkScanned(s)
                 /\ access' = Access(Unwrap(buf), WindowBegin(bufsize, bufremains),
                                     bufremains - s.bufremains, bufsize, bufremains,
                                     pos - bufremains, 0)
       \/ /\ bufremains = 0
          /\ \E o \in Outcomes(MESSAGE_BUFFER_SIZE) :
               /\ Source(o, MESSAGE_BUFFER_SIZE)
               /\ IF o.kind = "data"
                  THEN LET b == Filled(Unwrap(buf), o.k)
                           s == ScanChunkSize(ChunkScanStart(o.k), Window(b, o.k, o.k))
                       IN  /\ buf' = Some(b)
                           /\ bufsize' = o.k
                           /\ ChunkScanned(s)
                           /\ access' = Access(b, WindowBegin(o.k, o.k),
                                               o.k - s.bufremains, o.k, o.k, pos,
                                               MESSAGE_BUFFER_SIZE)
                  ELSE /\ pc' = "idle"
                       /\ result' = ReadError(o.kind)
                       /\ access' = SourceOnly(MESSAGE_BUFFER_SIZE)
                       /\ UNCHANGED <<buf, bufsize, bufremains, chunkVars>>
    /\ UNCHANGED <<startline, headers, body, fromVars, sizedVars, calls, callPos, prep, entry, prev, allocs>>

\* the Some(remain) arm of the loop calls read_sized_body(remain)
ChunkData ==
    /\ pc = "chunk_loop"
    /\ IsSome(current_chunk_size)
    /\ cl' = Unwrap(current_chunk_size)
    /\ caller' = "chunk"
    /\ pc' = "sized"
    /\ access' = NoAccess
    /\ UNCHANGED <<srcVars, msgVars, fromVars, chunkVars, remain, result, calls,
                   lastRead, callPos, prep, entry, prev, allocs>>

\* Message::read_byte: every way it can end.  `read` is the source read it
\* made (kind "none" when the byte came from the window), c the byte
\* returned, err "none" for Ok(c).
ReadByte ==
    IF bufremains > 0
    THEN LET rem == bufremains - 1
             idx == bufsize - rem
         IN  IF idx >= MESSAGE_BUFFER_SIZE
             THEN {[read |-> [kind |-> "none", k |-> 0], bufremains |-> rem,
                    idx |-> idx, c |-> 0, err |-> "panic"]}
             ELSE {[read |-> [kind |-> "none", k |-> 0], bufremains |-> rem,
                    idx |-> idx, c |-> c, err |-> "none"] :
                     c \in IF Unwrap(buf)[idx + 1] = Uninit THEN UninitValues
                           ELSE {Unwrap(buf)[idx + 1]}}
    ELSE {[read |-> o, bufremains |-> bufremains, idx |-> 0,
           c |-> IF o.kind = "data" THEN Stream[pos + 1] ELSE 0,
           err |-> IF o.kind = "data" THEN "none" ELSE "ioe"] : o \in Outcomes(1)}

ReadByteApplied(r) ==
    /\ bufremains' = r.bufremains
    /\ IF r.read.kind = "none"
       THEN /\ NoSource
            /\ access' = Access(Unwrap(buf), r.idx, 1, bufsize, bufremains,
                                pos - bufremains, 0)
       ELSE /\ Source(r.read, 1)
            /\ access' = SourceOnly(1)

\* the chunk terminator's first byte
ChunkCR ==
    /\ pc = "chunk_cr"
    /\ \E r \in ReadByte :
         /\ ReadByteApplied(r)
         /\ IF r.err # "none" THEN pc' = "idle" /\ result' = r.err
            ELSE IF r.c # CR THEN pc' = "idle" /\ result' = "bad"
            ELSE pc' = "chunk_lf" /\ result' = result
    /\ UNCHANGED <<startline, headers, body, buf, bufsize, fromVars, chunkVars,
                   sizedVars, calls, callPos, prep, entry, prev, allocs>>

\* the chunk terminator's second byte, and the end of the loop body
ChunkLF ==
    /\ pc = "chunk_lf"
    /\ \E r \in ReadByte :
         /\ ReadByteApplied(r)
         /\ IF r.err # "none" THEN pc' = "idle" /\ result' = r.err
            ELSE IF r.c # LF THEN pc' = "idle" /\ result' = "bad"
            ELSE IF Unwrap(current_chunk_size) = 0
                 THEN pc' = "idle" /\ result' = "ok"                  \* break
                 ELSE pc' = "chunk_loop" /\ result' = result
    /\ UNCHANGED <<startline, headers, body, buf, bufsize, fromVars, chunkVars,
                   sizedVars, calls, callPos, prep, entry, prev, allocs>>

\* ------------------------------------------------------------------------
\* Request::clear / Message::clear
\* ------------------------------------------------------------------------
\* Clear that also gives the scratch buffer up
ClearDroppingBuffer ==
    /\ pc = "idle"
    /\ result # "panic"
    /\ startline' = <<<<>>, <<>>, <<>>>>
    /\ headers' = IF IsSome(headers) THEN Some(HeadersClear(Unwrap(headers))) ELSE None
    /\ bufremains' = 0
    /\ bufsize' = 0
    /\ body' = IF IsSome(body) THEN Some(<<>>) ELSE None
    /\ buf' = None
    /\ prep' = "cleared"
    /\ access' = NoAccess
    /\ UNCHANGED <<srcVars, fromVars, chunkVars, sizedVars, pc, result, calls,
                   lastRead, callPos, entry, prev, allocs>>

Clear ==
    /\ pc = "idle"
    /\ result # "panic"
    /\ startline' = <<<<>>, <<>>, <<>>>>
    /\ headers' = IF IsSome(headers) THEN Some(HeadersClear(Unwrap(headers))) ELSE None
    /\ bufremains' = 0
    /\ bufsize' = 0
    /\ body' = IF IsSome(body) THEN Some(<<>>) ELSE None
    /\ prep' = "cleared"
    /\ access' = NoAccess
    /\ UNCHANGED <<srcVars, buf, fromVars, chunkVars, sizedVars, pc, result, calls,
                   lastRead, callPos, entry, prev, allocs>>

Next ==
    \/ CallFrom
    \/ FromLoop
    \/ ReadBody
    \/ SizedDrain
    \/ SizedLoop
    \/ ChunkSizeLine
    \/ ChunkData
    \/ ChunkCR
    \/ ChunkLF
    \/ Clear

Spec == Init /\ [][Next]_vars

\* the steps of a running from()
Running ==
    \/ FromLoop
    \/ ReadBody
    \/ SizedDrain
    \/ SizedLoop
    \/ ChunkSizeLine
    \/ ChunkData
    \/ ChunkCR
    \/ ChunkLF

\* The caller awaits from(): the future is polled until it completes, and a
\* read of the source completes with bytes, with zero bytes or with an
\* error.  Calling from() and clear() is up to the caller.
FairSpec == Spec /\ WF_vars(Running)

\* ------------------------------------------------------------------------
\* Vocabulary of the properties
\* ------------------------------------------------------------------------
Reqs == Scenarios[sc].reqs

\* offset in the stream of the first byte of request j
ReqStart(j) == Len(WireAll(SubSeq(Reqs, 1, j - 1)))

\* the running (or last) from() was entered on a new or cleared Request with
\* request j as the first thing to see
Given(j) ==
    /\ j \in 1..Len(Reqs)
    /\ callPos = ReqStart(j)
    /\ entry \in {"new", "cleared"}

\* from() has returned and the Request has not been touched since
Returned == pc = "idle" /\ calls > 0 /\ prep = "used"

\* the source closed or failed while bytes of the stream were still to come
Fault == closed /\ pos < Len(Stream)

ExpStartline(r) == <<r.method, r.target, r.version>>
ExpAppends(r) == [i \in 1..Len(r.lines) |-> <<r.lines[i].key, r.lines[i].val>>]

\* the appends the header store has received; the bytes of the body
Appends == IF IsSome(headers) THEN Unwrap(headers) ELSE <<>>
BodyBytes == IF IsSome(body) THEN Unwrap(body) ELSE <<>>

\* bytes of the stream this from() has consumed
Consumed == (pos - bufremains) - callPos

ParsedAs(r) ==
    /\ result = "ok"
    /\ startline = ExpStartline(r)
    /\ Appends = ExpAppends(r)
    /\ BodyBytes = r.body

\* ------------------------------------------------------------------------
\* Properties
\* ------------------------------------------------------------------------

\* C1: a well-formed request with a Content-Length body, given to from() on
\* a new or cleared Request, parses to success with its method, target,
\* version, header appends and body (what delivery in one read yields),
\* however the connection splits the stream into reads.
C1_SplitEquivalence ==
    \A j \in 1..Len(Reqs) :
        (Returned /\ Given(j) /\ Reqs[j].framing = "sized" /\ ~Fault)
            => ParsedAs(Reqs[j])

\* C2: with Content-Length L > 0, after a successful parse whose head scan
\* consumed the header-terminating CR LF, the body is exactly the L bytes
\* that follow the head on the wire and from() has consumed the head plus
\* exactly L bytes, whether all, some or none of them were in the window
\* when the headers completed.
C2_SizedBodyExact ==
    \A j \in 1..Len(Reqs) :
        (Returned /\ Given(j) /\ Reqs[j].framing = "sized" /\ result = "ok"
           /\ ~skip_newline)
            => /\ BodyBytes = Reqs[j].body
               /\ Consumed = Len(Wire(Reqs[j]))

\* C3: a well-formed chunked request parses to success with the body equal
\* to the concatenation of the chunk payloads and no byte of the request
\* left over, for every segmentation.
C3_ChunkedBody ==
    \A j \in 1..Len(Reqs) :
        (Returned /\ Given(j) /\ Reqs[j].framing = "chunked" /\ ~Fault)
            => /\ ParsedAs(Reqs[j])
               /\ Consumed = Len(Wire(Reqs[j]))

\* C4: when the source returns zero bytes before the request given to
\* from() is complete, from() returns ConnectionClosed.
C4_EarlyCloseIsConnectionClosed ==
    \A j \in 1..Len(Reqs) :
        (Returned /\ Given(j) /\ lastRead = "zero"
           /\ pos < ReqStart(j) + Len(Wire(Reqs[j])))
            => result = "closed"

\* C5: a chunk-size line that is empty, holds a non-hexadecimal character or
\* denotes a negative value makes from() return ProtocolViolation, with no
\* payload byte appended to the body.
C5_BadChunkSizeRejected ==
    \A j \in 1..Len(Reqs) :
        (Returned /\ Given(j) /\ Reqs[j].framing = "badchunk" /\ ~Fault)
            => /\ result = "bad"
               /\ BodyBytes = <<>>

\* C6: after a successful parse of a well-formed head, given to from() on a
\* new or cleared Request, method, path and version are the three startline
\* tokens and the header store has received one append per header line, in
\* wire order, the name trimmed and lowercased and the value trimmed.
C6_HeadParsed ==
    \A j \in 1..Len(Reqs) :
        (Returned /\ Given(j) /\ result = "ok")
            => /\ startline = ExpStartline(Reqs[j])
               /\ Appends = ExpAppends(Reqs[j])

\* a request with two header lines of the same name, delivered one byte per
\* read, has been parsed
C6_Witness ==
    /\ Returned
    /\ Given(1)
    /\ result = "ok"
    /\ mode = "trickle"
    /\ Len(Appends) = 2
    /\ Appends[1][1] = Appends[2][1]

\* C7: request A parsed successfully, clear(), then request B parsed on the
\* same Request gives what parsing B on a new Request gives (B here has no
\* body, and a new Request parses it to its tokens under every
\* segmentation), provided no byte of B was delivered before clear().
C7_ReuseAfterClear ==
    (Returned /\ calls = 2 /\ entry = "cleared" /\ prev = "ok"
       /\ Len(Reqs) >= 2 /\ callPos <= ReqStart(2) /\ ~Fault)
        => ParsedAs(Reqs[2])

\* C8: once a read returns zero bytes or a transport error the invocation
\* has returned with an error, no further read issued; a protocol violation
\* found by the head scan ends the scan on the offending byte; the chunked
\* reader goes on to the terminator's LF only after a CR.
C8_ErrorsReturnAtOnce ==
    /\ (calls > 0 /\ lastRead \in {"zero", "err"})
          => (pc = "idle" /\ result \in {"closed", "ioe"})
    /\ (Returned /\ result = "bad" /\ status # "HeadersOK")
          => (skip_newline /\ Unwrap(buf)[bufsize - bufremains] # LF)
    /\ pc = "chunk_lf" => (lastRead = "data" /\ Stream[pos] = CR)

\* the source closed in the middle of a body and from() has returned
C8_Witness ==
    /\ Returned
    /\ lastRead = "zero"
    /\ result = "closed"
    /\ status = "HeadersOK"
    /\ BodyBytes # <<>>
    /\ Fault

\* C9: after clear() the startline fields, the header store and the body
\* are empty and both counters are zero; clear() leaves the scratch buffer
\* as it is, and once allocated the buffer is never replaced or resized.
C9_ClearKeepsBuffer ==
    /\ [](prep = "cleared"
            => /\ startline = <<<<>>, <<>>, <<>>>>
               /\ Appends = <<>>
               /\ BodyBytes = <<>>
               /\ bufsize = 0
               /\ bufremains = 0)
    /\ [][/\ IsSome(buf) => /\ IsSome(buf')
                            /\ Len(Unwrap(buf')) = Len(Unwrap(buf))
                            /\ allocs' = allocs
          /\ prep' = "cleared" => buf' = buf]_vars

\* clear(), from(), clear() on a Request whose buffer an earlier from() filled
C9_Witness ==
    /\ prep = "cleared"
    /\ entry = "cleared"
    /\ calls = 2
    /\ allocs = 1
    /\ IsSome(buf)
    /\ Unwrap(buf)[1] # Uninit

\* C10: the byte after every line-ending CR is consumed and checked: a
\* successful from() has no LF check pending, a CR followed by another byte
\* gives ProtocolViolation, and the LF after the chunk-size line's CR never
\* becomes part of the chunk-size text.
C10_CrThenLf ==
    /\ (Returned /\ result = "ok") => ~skip_newline
    /\ (Returned /\ calls = 1 /\ Scenarios[sc].tag = "crx" /\ ~Fault)
          => result = "bad"
    /\ \A i \in 1..Len(numbuf) : numbuf[i] # LF

\* a header line with exactly one of its name and its value empty
HalfLine(l) == (l.name = <<>>) # (l.value = <<>>)

\* C11: a header line that reaches its CR with exactly one of the key and the
\* value scratch non-empty ("X:", ":v", a line without a colon) makes from()
\* fail with ProtocolViolation and appends nothing: whenever from() has
\* returned on such a head without the source failing, the result is
\* ProtocolViolation and the line is not in the header store.
C11_HalfLineRejected ==
    /\ \A j \in 1..Len(Reqs) :
         (Given(j) /\ Returned /\ ~closed
            /\ \E i \in 1..Len(Reqs[j].lines) : HalfLine(Reqs[j].lines[i]))
           => /\ result = "bad"
              /\ \A i \in 1..Len(Reqs[j].lines) :
                    HalfLine(Reqs[j].lines[i]) => Len(Appends) < i
    /\ (Scenarios[sc].tag = "half" /\ Returned /\ calls = 1 /\ ~closed)
           => (result = "bad" /\ Appends = <<>>)

\* C12: the header scan ends exactly at the blank line: when from() has
\* reached HeadersOK and hands over to the body reader, it has consumed the
\* head up to and including the blank line's LF, and the unconsumed window
\* holds, in order, the bytes of the stream that follow.
C12_ScanEndsAtBlankLine ==
    \A j \in 1..Len(Reqs) :
        (Given(j) /\ pc = "body")
          => /\ Consumed = Len(WireHead(Reqs[j]))
             /\ Window(Unwrap(buf), bufsize, bufremains)
                  = SubSeq(Stream, pos - bufremains + 1, pos)

\* what the head of request r announces about its body
HasContentLength(r) == \E i \in 1..Len(r.lines) : r.lines[i].key = CONTENT_LENGTH
HasChunked(r) ==
    \E i \in 1..Len(r.lines) :
        r.lines[i].key = TRANSFER_ENCODING /\ r.lines[i].val = CHUNKED
AnnouncedLength(r) ==
    DecValue((CHOOSE l \in {r.lines[i] : i \in 1..Len(r.lines)} :
                 l.key = CONTENT_LENGTH).val)

\* the step leaves the source, the window and the body alone and from()
\* returns success with an empty body
ReturnsEmptyBody ==
    /\ pc' = "idle"
    /\ result' = "ok"
    /\ BodyBytes' = <<>>
    /\ pos' = pos
    /\ lastRead' = lastRead
    /\ <<buf', bufsize', bufremains'>> = <<buf, bufsize, bufremains>>

\* C13: once the headers are complete the sized strategy runs with L when
\* the head has a Content-Length: L (also when it has Transfer-Encoding:
\* chunked too), otherwise the chunked strategy when it has
\* Transfer-Encoding: chunked; otherwise, and when L = 0, from() returns
\* success with an empty body, without a read of the source and with the
\* unconsumed window unchanged.
C13_BodyStrategy ==
    [][\A j \in 1..Len(Reqs) :
          /\ (Given(j) /\ pc = "body")
                => IF HasContentLength(Reqs[j])
                   THEN pc' = "sized" /\ cl' = AnnouncedLength(Reqs[j])
                          /\ caller' = "read_body"
                   ELSE IF HasChunked(Reqs[j])
                   THEN pc' = "chunk_loop"
                   ELSE ReturnsEmptyBody
          /\ (Given(j) /\ pc = "sized" /\ caller = "read_body" /\ cl = 0)
                => ReturnsEmptyBody]_vars

\* the sized strategy has been chosen for a request that has both headers,
\* and a request announcing zero bytes has returned
C13_Witness ==
    \E j \in 1..Len(Reqs) :
        /\ Given(j)
        /\ HasContentLength(Reqs[j])
        /\ HasChunked(Reqs[j])
        /\ pc = "sized_loop"
        /\ caller = "read_body"
        /\ cl = 1

\* the value of a hexadecimal literal
HexDigit(c) == IF c \in 48..57 THEN c - 48
               ELSE IF c \in 65..70 THEN c - 55 ELSE c - 87
RECURSIVE HexValue(_)
HexValue(s) ==
    IF s = <<>> THEN 0 ELSE 16 * HexValue(SubSeq(s, 1, Len(s) - 1)) + HexDigit(s[Len(s)])

\* the first chunk-size literal of a chunked body: the bytes before its
\* first CR
RECURSIVE UpToCR(_)
UpToCR(w) == IF w = <<>> \/ Head(w) = CR THEN <<>> ELSE <<Head(w)>> \o UpToCR(Tail(w))
SizeLiteral(r) == UpToCR(r.bodywire)

\* C14: the chunk-size line is read in base 16: once the first chunk-size
\* line of a chunked request has been parsed, the number of payload bytes
\* to read for the chunk is the hexadecimal value of its literal.
C14_ChunkSizeIsHex ==
    \A j \in 1..Len(Reqs) :
        (Given(j) /\ Reqs[j].framing \in {"chunked", "hexchunk"}
           /\ status = "HeadersOK" /\ pc \notin {"from", "body"}
           /\ IsSome(current_chunk_size))
          => Unwrap(current_chunk_size) = HexValue(SizeLiteral(Reqs[j]))

\* the chunked reader is at work on request j
InChunked(j) ==
    /\ Given(j)
    /\ Reqs[j].framing = "chunked"
    /\ status = "HeadersOK"
    /\ pc \notin {"from", "body"}

\* C15: when a chunk-size line parses to 0 the chunked reader consumes that
\* line's CR LF and the terminating CR LF, appends nothing to the body and
\* ends with success: it never consumes a byte beyond the zero-size block,
\* and unless the source fails from() returns success having consumed the
\* request exactly.
C15_ZeroChunkEnds ==
    \A j \in 1..Len(Reqs) :
        (InChunked(j) /\ current_chunk_size = Some(0))
          => /\ BodyBytes = <<>>
             /\ Consumed <= Len(Wire(Reqs[j]))
             /\ (Returned /\ ~closed)
                  => (result = "ok" /\ Consumed = Len(Wire(Reqs[j])))

\* C16: for a chunk of size N > 0 the chunked reader appends exactly the N
\* bytes that follow the size line's CR LF, checks the CR LF after them, and
\* is then back at a new chunk-size line with an empty digit accumulator and
\* no chunk size: at the chunk terminator the body is the payload of the
\* first chunk, and once the terminator has been passed the reader is in
\* the size-line state.
C16_ChunkThenNextSizeLine ==
    \A j \in 1..Len(Reqs) :
        (InChunked(j) /\ Reqs[j].body # <<>>)
          => /\ (pc \in {"chunk_cr", "chunk_lf"}) => BodyBytes = Reqs[j].body
             /\ (pc = "chunk_loop" /\ BodyBytes # <<>>)
                  => /\ BodyBytes = Reqs[j].body
                     /\ current_chunk_size = None
                     /\ numbuf = <<>>

\* the capacity of the scratch buffer (0 before it is allocated)
Capacity == IF IsSome(buf) THEN Len(Unwrap(buf)) ELSE 0

\* C17: in every reachable state, across any sequence of from() and clear()
\* calls and any read results, 0 <= bufremains <= bufsize <= capacity of the
\* scratch buffer (bufremains is unsigned: a value below 0 is an underflow).
C17_WindowBounds ==
    /\ 0 <= bufremains
    /\ bufremains <= bufsize
    /\ bufsize <= Capacity
    /\ Capacity <= MESSAGE_BUFFER_SIZE

\* a from() has returned success after read_sized_body took the body out of
\* a window that held more than the body
C17_Witness ==
    /\ Returned
    /\ result = "ok"
    /\ caller = "read_body"
    /\ BodyBytes # <<>>
    /\ 0 < bufremains
    /\ bufremains < bufsize

ReadIssued == pos' # pos \/ (lastRead' # lastRead /\ lastRead' # "none")

\* C19: a read of the source is issued only when the unconsumed window is
\* empty (bufremains = 0); during the startline and header scan a refill is
\* one read offered the whole scratch buffer, and the count it returns is
\* the new valid length and the new unconsumed count.
C19_ReadOnlyWhenWindowEmpty ==
    [][ReadIssued
         => /\ bufremains = 0
            /\ access'.offer > 0
            /\ pc = "from"
                 => /\ access'.offer = Capacity
                    /\ access'.offer = MESSAGE_BUFFER_SIZE
                    /\ lastRead' = "data"
                         => /\ bufsize' = pos' - pos
                            /\ access'.size = pos' - pos
                            /\ access'.rem = pos' - pos]_vars

\* the header scan has refilled the scratch buffer after an earlier read of
\* the same from()
C19_Witness ==
    /\ pc = "from"
    /\ lastRead = "data"
    /\ access.offer = MESSAGE_BUFFER_SIZE
    /\ access.at > callPos
    /\ access.rem > 1
    /\ bufsize = access.rem

\* the bytes of the stream consumed so far, from the source or the window
Progress == pos - bufremains

\* C20: every from() eventually returns, with success or an error, for a
\* source that delivers finitely many bytes and then zero bytes or an error;
\* and an iteration of the header scan loop, of the sized-body loop or of the
\* chunk-size loop that leaves the loop running has consumed a byte.
C20_FromReturns ==
    /\ (pc # "idle") ~> (pc = "idle" /\ result \in {"ok", "bad", "closed", "ioe"})
    /\ [][(pc \in {"from", "sized_loop", "chunk_loop"} /\ pc' = pc)
            => Progress' > Progress]_vars

\* a from() has returned after its loops went round many times: the head
\* and the body were delivered one byte per read
C20_Witness ==
    /\ Returned
    /\ mode = "trickle"
    /\ result = "ok"
    /\ status = "HeadersOK"
    /\ BodyBytes # <<>>

====
